---- MODULE Spec2Model ----
(***************************************************************************)
(* A model of the Plonk-library core: the arithmetic circuit               *)
(* (rust_lib/src/circuit.rs), the Cooley-Tukey FFT (rust_lib/src/fft.rs)   *)
(* and the KZG polynomial commitment (rust_lib/src/kgz.rs).                *)
(*                                                                         *)
(* The three components share no state, so each has its own specification *)
(* (SpecCircuit, SpecFFT, SpecKZG) over its own variables; the variables   *)
(* of the other two components stay at their idle values.                  *)
(***************************************************************************)
EXTENDS Integers, Sequences, FiniteSets, TLC

VARIABLES
    \* ---- circuit.rs: the fields of Circuit and CircuitSelectors
    n, a, b, c, gates, q_add, q_mul, q_c,
    \* the last Circuit operation called and what it returned
    op, outcome,
    \* ---- fft.rs: the caller's buffer and what it was transformed with
    coeffs, original_coeffs, omega, domain, fpc, fresult,
    \* ---- kgz.rs: the parameters and the values a caller holds
    degree, params, secret, poly, commitment, z, proof, value, claimed, accepted, kpc

circuitVars == <<n, a, b, c, gates, q_add, q_mul, q_c, op, outcome>>
fftVars == <<coeffs, original_coeffs, omega, domain, fpc, fresult>>
kzgVars == <<degree, params, secret, poly, commitment, z, proof, value, claimed, accepted, kpc>>
vars == <<circuitVars, fftVars, kzgVars>>

(***************************************************************************)
(* Generic helpers                                                         *)
(***************************************************************************)
Pow(x, e) == x ^ e

(***************************************************************************)
(* circuit.rs                                                              *)
(***************************************************************************)

\* The width of F's word. The code's F wraps a u64; the model keeps the
\* wrap-around at a narrower width.
WordBits == 2

\* The largest capacity a circuit is created with.
MaxCap == 2

WordMod == Pow(2, WordBits)

\* F::zero, F::one
FZero == 0
FOne == 1

\* impl Add for F: wrapping_add
FAdd(x, y) == (x + y) % WordMod

\* impl Mul for F: wrapping_mul
FMul(x, y) == (x * y) % WordMod

\* The wire values callers record: zero, one, and the top bit of the word.
WireVals == {FZero, FOne, Pow(2, WordBits - 1)}

GateType == {"Add", "Mul"}

Wire(i, v) == [index |-> i, value |-> v]

\* The gates a caller builds: wires 0, 1 and 2 as in the tests.
Gates ==
    { [gate_type |-> t, left_wire |-> Wire(0, x), right_wire |-> Wire(1, y),
       output_wire |-> Wire(2, o)] : t \in GateType, x \in WireVals, y \in WireVals,
                                     o \in WireVals }

\* vec![F::zero(); size]
ZeroVec(size) == [i \in 1..size |-> FZero]

\* Circuit::new(size)
NewCircuit(size) ==
    /\ n = size
    /\ a = <<>>
    /\ b = <<>>
    /\ c = <<>>
    /\ gates = <<>>
    /\ q_add = ZeroVec(size)
    /\ q_mul = ZeroVec(size)
    /\ q_c = ZeroVec(size)
    /\ op = "new"
    /\ outcome = "ok"

\* A selector write that takes the 0-based index for the 1-based position.
SetSelector_shifted(sel, idx) == [sel EXCEPT ![idx] = FOne]

\* The selector written by add_gate's match; idx is the 0-based index, the
\* sequences are 1-based.
SetSelector(sel, idx) == [sel EXCEPT ![idx + 1] = FOne]

\* A capacity test that lets one gate too many in.
IsFull_offByOne(idx) == idx > n

\* add_gate's capacity test on the index of the new gate.
IsFull(idx) == idx >= n

\* Circuit::add_gate(gate): panics before touching anything when the circuit
\* is full.
add_gate(gate) ==
    LET idx == Len(gates) IN
    /\ op' = "add_gate"
    /\ IF IsFull(idx)
       THEN /\ outcome' = "CircuitFull"
            /\ UNCHANGED <<n, a, b, c, gates, q_add, q_mul, q_c>>
       ELSE /\ outcome' = "ok"
            /\ q_add' = IF gate.gate_type = "Add" THEN SetSelector(q_add, idx) ELSE q_add
            /\ q_mul' = IF gate.gate_type = "Mul" THEN SetSelector(q_mul, idx) ELSE q_mul
            /\ a' = Append(a, gate.left_wire.value)
            /\ b' = Append(b, gate.right_wire.value)
            /\ c' = Append(c, gate.output_wire.value)
            /\ gates' = Append(gates, gate)
            /\ UNCHANGED <<n, q_c>>

\* A gate check that ignores the gate type.
GateHolds_addOnly(i) == FAdd(a[i], b[i]) = c[i]

\* The body of verify_constraints' loop at index i: does gate i hold?
GateHolds(i) ==
    IF gates[i].gate_type = "Add"
    THEN FAdd(a[i], b[i]) = c[i]
    ELSE FMul(a[i], b[i]) = c[i]

\* verify_constraints' loop from gate i on, returning false at the first
\* gate that does not hold.
RECURSIVE ScanFrom(_)
ScanFrom(i) ==
    IF i > Len(gates) THEN TRUE
    ELSE IF ~GateHolds(i) THEN FALSE
    ELSE ScanFrom(i + 1)

\* Circuit::verify_constraints()
verify_constraints ==
    /\ op' = "verify_constraints"
    /\ outcome' = IF ScanFrom(1) THEN "true" ELSE "false"
    /\ UNCHANGED <<n, a, b, c, gates, q_add, q_mul, q_c>>

FftIdle ==
    /\ coeffs = <<>>
    /\ original_coeffs = <<>>
    /\ omega = 1
    /\ domain = <<>>
    /\ fpc = "idle"
    /\ fresult = [status |-> "none", val |-> <<>>]

KzgIdle ==
    /\ degree = 0
    /\ params = [powers_of_g |-> <<>>, g2 |-> 0, g2_s |-> 0]
    /\ secret = 0
    /\ poly = <<>>
    /\ commitment = [status |-> "none", val |-> 0]
    /\ z = 0
    /\ proof = 0
    /\ value = 0
    /\ claimed = 0
    /\ accepted = FALSE
    /\ kpc = "idle"

InitCircuit ==
    /\ \E size \in 0..MaxCap : NewCircuit(size)
    /\ FftIdle
    /\ KzgIdle

AddGate == (\E gate \in Gates : add_gate(gate)) /\ UNCHANGED <<fftVars, kzgVars>>

VerifyConstraints == verify_constraints /\ UNCHANGED <<fftVars, kzgVars>>

NextCircuit == AddGate \/ VerifyConstraints

SpecCircuit == InitCircuit /\ [][NextCircuit]_vars

(***************************************************************************)
(* Claims about the circuit                                                *)
(***************************************************************************)

\* C4: after any sequence of add_gate calls, verify_constraints returns true
\* exactly when every recorded gate i has a[i] + b[i] = c[i] (Add) or
\* a[i] * b[i] = c[i] (Mul); true for a circuit without gates.
C4_VerifyIffAllGatesHold ==
    op = "verify_constraints" =>
        /\ outcome \in {"true", "false"}
        /\ (outcome = "true") <=>
             \A i \in 1..Len(gates) :
                /\ gates[i].gate_type = "Add" => (a[i] + b[i]) % WordMod = c[i]
                /\ gates[i].gate_type = "Mul" => (a[i] * b[i]) % WordMod = c[i]

\* C4's case: two gates, the first consistent and the second not, rejected.
C4_Witness ==
    /\ op = "verify_constraints"
    /\ outcome = "false"
    /\ Len(gates) = 2
    /\ gates[1].gate_type = "Mul" /\ (a[1] * b[1]) % WordMod = c[1]
    /\ gates[2].gate_type = "Add" /\ (a[2] + b[2]) % WordMod # c[2]

\* C5: add_gate on a circuit that already holds n gates fails with the
\* circuit-full condition and changes nothing; with fewer than n gates it
\* succeeds and records one more gate.
C5_CapacityBoundary ==
    [][op' = "add_gate" =>
         IF Len(gates) = n
         THEN /\ outcome' = "CircuitFull"
              /\ UNCHANGED <<n, a, b, c, gates, q_add, q_mul, q_c>>
         ELSE /\ Len(gates) < n
              /\ outcome' = "ok"
              /\ Len(gates') = Len(gates) + 1]_vars

\* C5's case: a full circuit of capacity 1 has refused a second gate.
C5_Witness ==
    /\ op = "add_gate"
    /\ outcome = "CircuitFull"
    /\ n = 1
    /\ Len(gates) = 1

\* C6: at an index holding an Add gate q_add is one and q_mul zero, at an
\* index holding a Mul gate q_add is zero and q_mul one, at a free index both
\* are zero; a, b, c hold the wire values of the gates in the order added.
C6_SelectorInvariant ==
    /\ Len(a) = Len(gates) /\ Len(b) = Len(gates) /\ Len(c) = Len(gates)
    /\ Len(gates) <= n
    /\ Len(q_add) = n /\ Len(q_mul) = n
    /\ \A i \in 1..n :
         IF i <= Len(gates)
         THEN /\ gates[i].gate_type = "Add" => q_add[i] = 1 /\ q_mul[i] = 0
              /\ gates[i].gate_type = "Mul" => q_add[i] = 0 /\ q_mul[i] = 1
              /\ a[i] = gates[i].left_wire.value
              /\ b[i] = gates[i].right_wire.value
              /\ c[i] = gates[i].output_wire.value
         ELSE q_add[i] = 0 /\ q_mul[i] = 0

\* C6's case: an Add gate and a Mul gate recorded one after the other.
C6_Witness ==
    /\ n = 2
    /\ Len(gates) = 2
    /\ gates[1].gate_type = "Add"
    /\ gates[2].gate_type = "Mul"
    /\ q_add = <<1, 0>>
    /\ q_mul = <<0, 1>>

\* C10: the circuit's scalars are a field: the product of two non-zero
\* scalars is not zero, so verify_constraints rejects every circuit holding a
\* Mul gate with non-zero left and right values and output value zero.
C10_MulOfNonZeroIsNonZero ==
    (/\ op = "verify_constraints"
     /\ \E i \in 1..Len(gates) :
           gates[i].gate_type = "Mul" /\ a[i] # 0 /\ b[i] # 0 /\ c[i] = 0)
    => outcome = "false"

(***************************************************************************)
(* fft.rs                                                                  *)
(*                                                                         *)
(* fft, ifft and interpolate are generic over F: Field. The model          *)
(* instantiates F with the prime field of FftModulus elements, whose       *)
(* multiplicative group has order 16 and so holds primitive roots of unity *)
(* of every power-of-two order the model uses. Sequences are 1-based: the  *)
(* code's buf[i] is the model's buf[i + 1].                                *)
(***************************************************************************)

\* The order of the field F.
FftModulus == 17

\* The longest buffer a caller passes.
MaxLen == 8

\* The largest coefficient a caller puts in a buffer.
MaxCoeff == 1

\* Field arithmetic of F
FpAdd(x, y) == (x + y) % FftModulus
FpSub(x, y) == (x - y) % FftModulus
FpMul(x, y) == (x * y) % FftModulus

\* Field::pow by a u64 exponent
RECURSIVE FpPow(_, _)
FpPow(x, e) == IF e = 0 THEN 1 ELSE FpMul(x, FpPow(x, e - 1))

\* Field::inverse: None for zero, else the x' with x * x' = 1
FpInverse(x) ==
    IF x % FftModulus = 0 THEN [some |-> FALSE, val |-> 0]
    ELSE [some |-> TRUE,
          val |-> CHOOSE y \in 1..(FftModulus - 1) : FpMul(x % FftModulus, y) = 1]

\* usize::is_power_of_two
RECURSIVE IsPowerOfTwo(_)
IsPowerOfTwo(k) ==
    IF k = 0 THEN FALSE
    ELSE IF k = 1 THEN TRUE
    ELSE k % 2 = 0 /\ IsPowerOfTwo(k \div 2)

\* usize::trailing_zeros of a non-zero k
RECURSIVE TrailingZeros(_)
TrailingZeros(k) == IF k % 2 = 1 THEN 0 ELSE 1 + TrailingZeros(k \div 2)

\* reverse_bits' loop from bit i on: bit i of num becomes bit bits-1-i
RECURSIVE ReverseBitsFrom(_, _, _)
ReverseBitsFrom(num, bits, i) ==
    IF i >= bits THEN 0
    ELSE (IF (num \div Pow(2, i)) % 2 # 0 THEN Pow(2, bits - 1 - i) ELSE 0)
         + ReverseBitsFrom(num, bits, i + 1)

\* reverse_bits(num, bits)
reverse_bits(num, bits) == ReverseBitsFrom(num, bits, 0)

\* slice::swap(i, j), 0-based
Swap(buf, i, j) == [buf EXCEPT ![i + 1] = buf[j + 1], ![j + 1] = buf[i + 1]]

\* fft's first loop from index i on: swap i with its bit reversal j once,
\* when i < j
RECURSIVE BitReversePermute(_, _)
BitReversePermute(buf, i) ==
    LET len == Len(buf)
        j == reverse_bits(i, TrailingZeros(len))
    IN IF i >= len THEN buf
       ELSE BitReversePermute(IF i < j THEN Swap(buf, i, j) ELSE buf, i + 1)

\* fft's innermost loop from offset j on, in the block at k
RECURSIVE Butterflies(_, _, _, _, _, _)
Butterflies(buf, k, j, half_m, w, w_m) ==
    IF j >= half_m THEN buf
    ELSE LET t == FpMul(w, buf[k + j + half_m + 1])
             lo == buf[k + j + 1]
             next == [buf EXCEPT ![k + j + half_m + 1] = FpSub(lo, t),
                                 ![k + j + 1] = FpAdd(lo, t)]
         IN Butterflies(next, k, j + 1, half_m, FpMul(w, w_m), w_m)

\* fft's loop over the blocks of size m from the block at k on
RECURSIVE Blocks(_, _, _, _)
Blocks(buf, k, m, w_m) ==
    IF k >= Len(buf) THEN buf
    ELSE Blocks(Butterflies(buf, k, 0, m \div 2, 1, w_m), k + m, m, w_m)

\* fft's while loop: m is the block size already combined
RECURSIVE Stages(_, _, _)
Stages(buf, m, w) ==
    IF m >= Len(buf) THEN buf
    ELSE LET m2 == m * 2
             w_m == FpPow(w, Len(buf) \div m2)
         IN Stages(Blocks(buf, 0, m2, w_m), m2, w)

Ok(v) == [status |-> "ok", val |-> v]
Panic(msg) == [status |-> "panic", val |-> msg]

\* fft(poly_coeffs, omega): the buffer afterwards, or the assert's panic
fft(poly_coeffs, w) ==
    IF ~IsPowerOfTwo(Len(poly_coeffs))
    THEN Panic("Length must be a power of 2")
    ELSE Ok(Stages(BitReversePermute(poly_coeffs, 0), 1, w))

\* An ifft that forgets to scale by the inverse of n.
ifft_unscaled(evals, omega_inv) == fft(evals, omega_inv)

\* ifft(evals, omega_inv)
ifft(evals, omega_inv) ==
    LET transformed == fft(evals, omega_inv)
        n_inv == FpInverse(Len(evals) % FftModulus)
    IN IF transformed.status = "panic" THEN transformed
       ELSE IF ~n_inv.some THEN Panic("unwrap on None")
       ELSE Ok([i \in 1..Len(evals) |-> FpMul(transformed.val[i], n_inv.val)])

\* DensePolynomial::from_coefficients_vec: drops the trailing zeros
RECURSIVE from_coefficients_vec(_)
from_coefficients_vec(v) ==
    IF Len(v) > 0 /\ v[Len(v)] = 0
    THEN from_coefficients_vec(SubSeq(v, 1, Len(v) - 1))
    ELSE v

\* interpolate(evals, domain)
interpolate(evals, dom) ==
    IF Len(evals) # Len(dom) THEN Panic("Evaluation and domain size mismatch")
    ELSE IF Len(dom) < 2 THEN Panic("index out of bounds")
    ELSE LET res == ifft(evals, FpPow(dom[2], Len(evals) - 1))
         IN IF res.status = "panic" THEN res
            ELSE Ok(from_coefficients_vec(res.val))

\* The buffers, roots and domains a caller passes
CoeffVals == 0..MaxCoeff

Buffers == UNION {[1..len -> CoeffVals] : len \in 0..MaxLen}

\* The roots of unity a caller passes with a buffer of len elements: the w
\* with w^len = 1
RootsOfUnity(len) == {w \in 1..(FftModulus - 1) : FpPow(w, len) = 1}

\* The domain a caller builds from omega: omega^0, ..., omega^(size-1)
DomainOf(w, size) == [i \in 1..size |-> FpPow(w, i - 1)]

CircuitIdle ==
    /\ n = 0
    /\ a = <<>>
    /\ b = <<>>
    /\ c = <<>>
    /\ gates = <<>>
    /\ q_add = <<>>
    /\ q_mul = <<>>
    /\ q_c = <<>>
    /\ op = "idle"
    /\ outcome = "none"

InitFFT ==
    /\ coeffs \in Buffers
    /\ original_coeffs = coeffs
    /\ omega \in RootsOfUnity(Len(coeffs))
    /\ \E size \in {Len(coeffs), Len(coeffs) + 1} : domain = DomainOf(omega, size)
    /\ fpc = "start"
    /\ fresult = Ok(<<>>)
    /\ CircuitIdle
    /\ KzgIdle

\* fft(&mut coeffs, omega)
Fft ==
    /\ fpc = "start"
    /\ LET res == fft(coeffs, omega)
       IN /\ fresult' = res
          /\ coeffs' = IF res.status = "ok" THEN res.val ELSE coeffs
          /\ fpc' = IF res.status = "ok" THEN "fft" ELSE "panicked"
    /\ UNCHANGED <<original_coeffs, omega, domain, circuitVars, kzgVars>>

\* ifft(&mut coeffs, omega.inverse().unwrap())
Ifft ==
    /\ fpc = "fft"
    /\ LET res == ifft(coeffs, FpInverse(omega).val)
       IN /\ fresult' = res
          /\ coeffs' = IF res.status = "ok" THEN res.val ELSE coeffs
          /\ fpc' = IF res.status = "ok" THEN "ifft" ELSE "panicked"
    /\ UNCHANGED <<original_coeffs, omega, domain, circuitVars, kzgVars>>

\* interpolate(&coeffs, &domain)
Interpolate ==
    /\ fpc = "start"
    /\ fresult' = interpolate(coeffs, domain)
    /\ fpc' = "interpolated"
    /\ UNCHANGED <<coeffs, original_coeffs, omega, domain, circuitVars, kzgVars>>

NextFFT == Fft \/ Ifft \/ Interpolate

SpecFFT == InitFFT /\ [][NextFFT]_vars

(***************************************************************************)
(* Claims about the FFT                                                    *)
(***************************************************************************)

\* w is a primitive k-th root of unity: w^k = 1 and w^j # 1 for 0 < j < k
IsPrimitiveRoot(w, k) ==
    /\ FpPow(w, k) = 1
    /\ \A j \in 1..(k - 1) : FpPow(w, j) # 1

\* The value of the polynomial with coefficients p at x, term by term
RECURSIVE FpEvaluate(_, _)
FpEvaluate(p, x) ==
    IF Len(p) = 0 THEN 0
    ELSE FpAdd(FpMul(p[Len(p)], FpPow(x, Len(p) - 1)),
               FpEvaluate(SubSeq(p, 1, Len(p) - 1), x))

\* C3: for a buffer whose length n is a power of two and a primitive n-th
\* root of unity omega, fft(coeffs, omega) followed by ifft(coeffs, omega^-1)
\* on the same buffer leaves it equal to the original coefficients.
C3_FftIfftRoundTrip ==
    (/\ IsPowerOfTwo(Len(original_coeffs))
     /\ IsPrimitiveRoot(omega, Len(original_coeffs)))
    => /\ fpc # "panicked"
       /\ fpc = "ifft" => coeffs = original_coeffs

\* C3's case: a buffer of eight coefficients, transformed by fft with a
\* primitive 8th root of unity, is back after ifft.
C3_Witness ==
    /\ fpc = "ifft"
    /\ Len(original_coeffs) = 8
    /\ IsPrimitiveRoot(omega, 8)
    /\ original_coeffs = <<1, 1, 0, 0, 0, 1, 0, 0>>
    /\ coeffs = original_coeffs

\* C9: for a power-of-two length n, a primitive n-th root of unity omega,
\* domain = [omega^0, ..., omega^(n-1)] and evals of length n, interpolate
\* returns without failing the polynomial p of degree < n with
\* p(domain[i]) = evals[i] for every i; with evals and domain of different
\* lengths it fails.
C9_InterpolateRecovers ==
    fpc = "interpolated" =>
        /\ Len(coeffs) # Len(domain) => fresult.status = "panic"
        /\ (/\ Len(coeffs) = Len(domain)
            /\ IsPowerOfTwo(Len(coeffs))
            /\ IsPrimitiveRoot(omega, Len(coeffs)))
           => /\ fresult.status = "ok"
              /\ Len(fresult.val) <= Len(coeffs)
              /\ \A i \in 1..Len(coeffs) :
                    FpEvaluate(fresult.val, domain[i]) = coeffs[i]

(***************************************************************************)
(* kgz.rs                                                                  *)
(*                                                                         *)
(* KZGParams is generic over E: Pairing. The model instantiates E with     *)
(* groups G1 and G2 of prime order KzgOrder, a point k*G written as the    *)
(* scalar k (the generator is 1, the identity 0), and the pairing          *)
(* e(a*G1, b*G2) = gT^(a*b) written as the exponent a*b: a bilinear,       *)
(* non-degenerate map, as the pairing of the curve is. The scalar field is *)
(* the prime field of KzgOrder elements. Sequences are 1-based: the code's *)
(* powers_of_g[i] is the model's powers_of_g[i + 1].                       *)
(***************************************************************************)

\* The order of the scalar field and of G1, G2 and the target group.
KzgOrder == 7

\* The largest degree setup is called with.
MaxDegree == 2

Fr == 0..(KzgOrder - 1)

\* Field arithmetic of E::ScalarField
FrAdd(x, y) == (x + y) % KzgOrder
FrSub(x, y) == (x - y) % KzgOrder
FrMul(x, y) == (x * y) % KzgOrder
FrNeg(x) == (0 - x) % KzgOrder
FrInverse(x) == CHOOSE y \in Fr : FrMul(x, y) = 1

\* G1: generator, zero, addition, subtraction, scalar multiplication
G1Generator == 1
G1Zero == 0
G1Add(p, q) == (p + q) % KzgOrder
G1Sub(p, q) == (p - q) % KzgOrder
G1Mul(p, k) == (p * k) % KzgOrder

\* G2: generator, subtraction, scalar multiplication
G2Generator == 1
G2Sub(p, q) == (p - q) % KzgOrder
G2Mul(p, k) == (p * k) % KzgOrder

\* E::pairing
Pairing(p, q) == (p * q) % KzgOrder

\* A setup loop over 0..degree, the last power left out.
SetupIterations_exclusive(d) == d

\* The number of iterations of setup's loop over 0..=degree
SetupIterations(d) == d + 1

\* setup's loop: push g1 * power, then power *= s
RECURSIVE SetupLoop(_, _, _, _)
SetupLoop(powers, power, s, left) ==
    IF left = 0 THEN powers
    ELSE SetupLoop(Append(powers, G1Mul(G1Generator, power)), FrMul(power, s), s, left - 1)

\* KZGParams::setup(degree, rng), s the scalar drawn from rng
setup(d, s) ==
    [powers_of_g |-> SetupLoop(<<>>, 1, s, SetupIterations(d)),
     g2 |-> G2Generator,
     g2_s |-> G2Mul(G2Generator, s)]

\* A commit that stops at the last power instead of failing.
RECURSIVE CommitLoop_truncating(_, _, _, _)
CommitLoop_truncating(prm, p, i, result) ==
    IF i >= Len(p) \/ i >= Len(prm.powers_of_g) THEN Ok(result)
    ELSE CommitLoop_truncating(prm, p, i + 1,
                               G1Add(result, G1Mul(prm.powers_of_g[i + 1], p[i + 1])))

\* commit's loop from coefficient i on
RECURSIVE CommitLoop(_, _, _, _)
CommitLoop(prm, p, i, result) ==
    IF i >= Len(p) THEN Ok(result)
    ELSE IF i >= Len(prm.powers_of_g)
    THEN Panic("Polynomial degree too large for parameters")
    ELSE CommitLoop(prm, p, i + 1, G1Add(result, G1Mul(prm.powers_of_g[i + 1], p[i + 1])))

\* KZGParams::commit(poly)
commit(prm, p) == CommitLoop(prm, p, 0, G1Zero)

\* DensePolynomial::degree: 0 for the zero polynomial
PolyDegree(p) == IF Len(p) = 0 THEN 0 ELSE Len(p) - 1

\* Horner's rule from coefficient i (1-based) down
RECURSIVE Horner(_, _, _, _)
Horner(p, x, i, acc) ==
    IF i = 0 THEN acc ELSE Horner(p, x, i - 1, FrAdd(FrMul(acc, x), p[i]))

\* DensePolynomial::evaluate
PolyEvaluate(p, x) ==
    IF Len(p) = 0 THEN 0
    ELSE IF x = 0 THEN p[1]
    ELSE Horner(p, x, Len(p), 0)

Coeff(p, i) == IF i <= Len(p) THEN p[i] ELSE 0

Max(x, y) == IF x >= y THEN x ELSE y

\* &DensePolynomial - &DensePolynomial
PolySub(p, q) ==
    from_coefficients_vec([i \in 1..Max(Len(p), Len(q)) |-> FrSub(Coeff(p, i), Coeff(q, i))])

\* One step of the long division: the remainder less cur_q_coeff * X^cur_q_degree
\* times the divisor, its trailing zeros popped
DivStep(remainder, divisor, cur_q_coeff, cur_q_degree) ==
    from_coefficients_vec(
        [i \in 1..Len(remainder) |->
            IF i - cur_q_degree \in 1..Len(divisor)
            THEN FrSub(remainder[i], FrMul(cur_q_coeff, divisor[i - cur_q_degree]))
            ELSE remainder[i]])

\* The long division's loop: while the remainder is not zero and its degree
\* is at least the divisor's
RECURSIVE DivLoop(_, _, _)
DivLoop(quotient, remainder, divisor) ==
    IF Len(remainder) = 0 \/ PolyDegree(remainder) < PolyDegree(divisor)
    THEN quotient
    ELSE LET cur_q_coeff == FrMul(remainder[Len(remainder)], FrInverse(divisor[Len(divisor)]))
             cur_q_degree == PolyDegree(remainder) - PolyDegree(divisor)
         IN DivLoop([quotient EXCEPT ![cur_q_degree + 1] = cur_q_coeff],
                    DivStep(remainder, divisor, cur_q_coeff, cur_q_degree), divisor)

\* DensePolynomial / &DensePolynomial, the divisor not zero: the quotient
PolyDiv(numerator, divisor) ==
    IF Len(numerator) = 0 THEN <<>>
    ELSE IF PolyDegree(numerator) < PolyDegree(divisor) THEN <<>>
    ELSE from_coefficients_vec(
            DivLoop([i \in 1..(PolyDegree(numerator) - PolyDegree(divisor) + 1) |-> 0],
                    numerator, divisor))

\* A divisor X + z, the sign of z lost.
Divisor_unnegated(zz) == from_coefficients_vec(<<zz, 1>>)

\* open's divisor X - z
Divisor(zz) == from_coefficients_vec(<<FrNeg(zz), 1>>)

\* KZGParams::open(poly, z): (proof, value), or commit's panic
open(prm, p, zz) ==
    LET val == PolyEvaluate(p, zz)
        numerator == PolySub(p, from_coefficients_vec(<<val>>))
        quotient == PolyDiv(numerator, Divisor(zz))
        pf == commit(prm, quotient)
    IN IF pf.status = "panic" THEN pf
       ELSE Ok([proof |-> pf.val, value |-> val])

\* A verify that leaves the claimed value out of the right-hand side.
verify_ignoringValue(prm, cm, pf, zz, v) ==
    Pairing(pf, G2Sub(prm.g2_s, G2Mul(prm.g2, zz))) = Pairing(cm, prm.g2)

\* KZGParams::verify(commitment, proof, z, value)
verify(prm, cm, pf, zz, v) ==
    LET g1_value == G1Mul(prm.powers_of_g[1], v)
        commitment_minus_value == G1Sub(cm, g1_value)
        g2_z == G2Mul(prm.g2, zz)
        g2_s_minus_z == G2Sub(prm.g2_s, g2_z)
        pairing1 == Pairing(pf, g2_s_minus_z)
        pairing2 == Pairing(commitment_minus_value, prm.g2)
    IN pairing1 = pairing2

\* The coefficient vectors a caller builds polynomials from
CoeffVecs == UNION {[1..len -> Fr] : len \in 0..(MaxDegree + 2)}

InitKZG ==
    /\ degree = 0
    /\ params = [powers_of_g |-> <<>>, g2 |-> 0, g2_s |-> 0]
    /\ secret = 0
    /\ poly = <<>>
    /\ commitment = [status |-> "none", val |-> 0]
    /\ z = 0
    /\ proof = 0
    /\ value = 0
    /\ claimed = 0
    /\ accepted = FALSE
    /\ kpc = "start"
    /\ CircuitIdle
    /\ FftIdle

\* let params = KZGParams::setup(d, &mut rng)
Setup ==
    /\ kpc = "start"
    /\ \E d \in 0..MaxDegree, s \in Fr :
          /\ degree' = d
          /\ secret' = s
          /\ params' = setup(d, s)
    /\ kpc' = "setup"
    /\ UNCHANGED <<poly, commitment, z, proof, value, claimed, accepted>>
    /\ UNCHANGED <<circuitVars, fftVars>>

\* let commitment = params.commit(&DensePolynomial::from_coefficients_vec(v))
Commit ==
    /\ kpc = "setup"
    /\ \E v \in CoeffVecs :
          LET p == from_coefficients_vec(v)
              res == commit(params, p)
          IN /\ poly' = p
             /\ commitment' = res
             /\ kpc' = IF res.status = "ok" THEN "committed" ELSE "commit_panicked"
    /\ UNCHANGED <<degree, params, secret, z, proof, value, claimed, accepted>>
    /\ UNCHANGED <<circuitVars, fftVars>>

\* let (proof, value) = params.open(&poly, z)
Open ==
    /\ kpc = "committed"
    /\ \E zz \in Fr :
          LET res == open(params, poly, zz)
          IN /\ z' = zz
             /\ IF res.status = "ok"
                THEN /\ proof' = res.val.proof
                     /\ value' = res.val.value
                     /\ kpc' = "opened"
                ELSE /\ UNCHANGED <<proof, value>>
                     /\ kpc' = "open_panicked"
    /\ UNCHANGED <<degree, params, secret, poly, commitment, claimed, accepted>>
    /\ UNCHANGED <<circuitVars, fftVars>>

\* params.verify(&commitment, &proof, z, v)
Verify ==
    /\ kpc = "opened"
    /\ \E v \in Fr :
          /\ claimed' = v
          /\ accepted' = verify(params, commitment.val, proof, z, v)
    /\ kpc' = "verified"
    /\ UNCHANGED <<degree, params, secret, poly, commitment, z, proof, value>>
    /\ UNCHANGED <<circuitVars, fftVars>>

NextKZG == Setup \/ Commit \/ Open \/ Verify

SpecKZG == InitKZG /\ [][NextKZG]_vars

(***************************************************************************)
(* Claims about the KZG commitment                                         *)
(***************************************************************************)

\* x^e in the scalar field
RECURSIVE FrPow(_, _)
FrPow(x, e) == IF e = 0 THEN 1 ELSE FrMul(x, FrPow(x, e - 1))

\* The sum over the indices lo..hi of term[i], in G1
RECURSIVE G1Sum(_, _, _)
G1Sum(term, lo, hi) ==
    IF lo > hi THEN 0 ELSE (term[hi] + G1Sum(term, lo, hi - 1)) % KzgOrder

\* C1: for params = setup(d), a polynomial of at most d+1 coefficients and a
\* point z, with (proof, value) = open(poly, z), the call
\* verify(commit(poly), proof, z, value) returns true.
C1_Completeness ==
    /\ Len(poly) <= degree + 1 => kpc # "commit_panicked"
    /\ kpc # "open_panicked"
    /\ (kpc = "verified" /\ claimed = value) => accepted

\* C1's case: a polynomial of full degree opened at a point other than the
\* secret and verified with the value open returned.
C1_Witness ==
    /\ kpc = "verified"
    /\ degree = 2
    /\ Len(poly) = 3
    /\ z # secret
    /\ claimed = value
    /\ accepted

\* C2: with (proof, value) = open(poly, z), verify(commit(poly), proof, z, v)
\* returns false for every scalar v other than value, also when z is the
\* secret of the setup.
C2_Soundness ==
    (kpc = "verified" /\ claimed # value) => ~accepted

\* C2's case: a wrong value rejected at the point z equal to the secret.
C2_Witness ==
    /\ kpc = "verified"
    /\ Len(poly) = 3
    /\ z = secret
    /\ claimed # value
    /\ ~accepted

\* C7: setup(d) with secret s returns d+1 powers, powers_of_g[i] = g1 * s^i
\* for i in 0..=d, g2 the generator of G2 and g2_s = g2 * s, so that
\* pairing(powers_of_g[1], g2) = pairing(powers_of_g[0], g2_s).
C7_SrsShape ==
    kpc # "start" =>
        /\ Len(params.powers_of_g) = degree + 1
        /\ \A i \in 0..degree :
              params.powers_of_g[i + 1] = (G1Generator * FrPow(secret, i)) % KzgOrder
        /\ params.powers_of_g[1] = G1Generator
        /\ params.g2 = G2Generator
        /\ params.g2_s = (G2Generator * secret) % KzgOrder
        /\ degree >= 1 =>
              Pairing(params.powers_of_g[2], params.g2)
                  = Pairing(params.powers_of_g[1], params.g2_s)

\* C7's case: the setup of degree 0, and a secret other than zero and one.
C7_Witness ==
    /\ kpc = "setup"
    /\ degree = 0
    /\ secret = 2
    /\ params.powers_of_g = <<1>>

\* C8: commit fails with the degree-too-large condition exactly when
\* poly.degree() >= powers_of_g.len(); otherwise it returns the sum over all
\* i of powers_of_g[i] * coeff_i; params is the same afterwards.
C8_CommitDegreeCheck ==
    [][(kpc = "setup" /\ kpc' # "setup") =>
         /\ params' = params
         /\ (commitment'.status = "panic")
               <=> (PolyDegree(poly') >= Len(params.powers_of_g))
         /\ commitment'.status # "panic" =>
               /\ commitment'.status = "ok"
               /\ commitment'.val =
                     G1Sum([i \in 1..Len(poly') |-> params.powers_of_g[i] * poly'[i]],
                           1, Len(poly'))]_vars

\* C8's case: a polynomial with one coefficient more than the parameters
\* have powers was refused.
C8_Witness ==
    /\ kpc = "commit_panicked"
    /\ commitment.status = "panic"
    /\ Len(poly) = Len(params.powers_of_g) + 1

====
